---------------------------- MODULE Spec2Model ----------------------------
(* A model of the fuzzy tipping system of src/main.cpp: the membership     *)
(* functions, the fuzzy sets and their fuzzification, the reader of the    *)
(* fuzzy set definitions, and the Mamdani inference of class Rules.        *)
(*                                                                         *)
(* A C++ double is modelled as an exact rational <<n, d>> in lowest terms  *)
(* with d > 0; a std::string is modelled as a sequence of one-character    *)
(* strings, the terminating '\0' being written "NUL".                      *)
EXTENDS Integers, Sequences, FiniteSets, TLC

VARIABLES
  mf,                      \* the last membership function call and its result
  inputSets,               \* std::vector<InputFuzzySet> inputSets (main)
  outputSets,              \* std::vector<OutputFuzzySet> outputSets (main)
  lines,                   \* the lines std::getline has returned so far
  fuzzified,               \* for each input set, the arguments of its fuzzify calls
  rules,                   \* Rules::rules
  pc,                      \* the position of the control inside inferMamdani
  inputMembershipValues,   \* the parameter of inferMamdani
  i,                       \* the index of the rule being analysed
  j,                       \* the index of the next character of the rule
  fuzzySetName,            \* the token being read
  andFlag,
  orFlag,
  accum,
  outputMembershipValues,  \* the multimap of (output set, firing strength)
  output                   \* the map inferMamdani returns

vars == <<mf, inputSets, outputSets, lines, fuzzified, rules, pc, inputMembershipValues,
          i, j, fuzzySetName, andFlag, orFlag, accum, outputMembershipValues,
          output>>

mfVars == <<mf>>
setVars == <<inputSets, outputSets, lines, fuzzified>>
inferVars == <<rules, pc, inputMembershipValues, i, j, fuzzySetName, andFlag,
               orFlag, accum, outputMembershipValues, output>>

-----------------------------------------------------------------------------
(* Bounds of the model.                                                    *)

\* The membership functions are evaluated on the grid {0, 25, ..., 25 * GridMax}.
GridMax == 4
\* The number of rules addRule stores before inferMamdani is called.
MaxRules == 2
\* The number of characters read past the '\0' of a rule that are followed.
MaxOverrun == 2
\* The number of lines readFuzzySetsFromFile reads.
MaxLines == 2
\* The number of calls of InputFuzzySet::fuzzify.
MaxFuzzify == 2

-----------------------------------------------------------------------------
(* double arithmetic, as exact rationals.                                  *)

Abs(n) == IF n < 0 THEN -n ELSE n

RECURSIVE GCD(_, _)
GCD(a, b) == IF b = 0 THEN a ELSE GCD(b, a % b)

\* The double n / d, d # 0.
Rat(n, d) ==
  LET g == GCD(Abs(n), Abs(d))
      s == IF d < 0 THEN -1 ELSE 1
  IN  <<(s * n) \div g, (s * d) \div g>>

Zero == Rat(0, 1)
One == Rat(1, 1)

RLess(a, b) == a[1] * b[2] < b[1] * a[2]
RLeq(a, b) == a[1] * b[2] <= b[1] * a[2]
RSub(a, b) == Rat(a[1] * b[2] - b[1] * a[2], a[2] * b[2])
RAbs(a) == <<Abs(a[1]), a[2]>>

\* std::min(a, b) and std::max(a, b)
min(a, b) == IF RLess(b, a) THEN b ELSE a
max(a, b) == IF RLess(a, b) THEN b ELSE a

-----------------------------------------------------------------------------
(* The membership functions.                                               *)

\* triangmf without the abs of its descending branch.
triangmfNoAbs(left, center, right, x) ==
  IF x <= left THEN Zero
  ELSE IF x >= right THEN Zero
  ELSE IF x > left /\ x <= center THEN Rat(x - left, center - left)
  ELSE IF x < right /\ x > center
       THEN RSub(One, Rat(right - x, center - right))
  ELSE Zero

triangmf(left, center, right, x) ==
  IF x <= left THEN Zero
  ELSE IF x >= right THEN Zero
  ELSE IF x > left /\ x <= center THEN Rat(x - left, center - left)
  ELSE IF x < right /\ x > center
       THEN RSub(One, RAbs(Rat(right - x, center - right)))
  ELSE Zero

\* trapmf with the plateau open at upRight.
trapmfOpenPlateau(lowLeft, upLeft, upRight, lowRight, x) ==
  IF x <= lowLeft THEN Zero
  ELSE IF x >= lowRight THEN Zero
  ELSE IF x > lowLeft /\ x <= upLeft THEN Rat(x - lowLeft, upLeft - lowLeft)
  ELSE IF x > upLeft /\ x < upRight THEN One
  ELSE IF x > upRight /\ x < lowRight
       THEN RSub(One, RAbs(Rat(upRight - x, lowRight - upRight)))
  ELSE Zero

trapmf(lowLeft, upLeft, upRight, lowRight, x) ==
  IF x <= lowLeft THEN Zero
  ELSE IF x >= lowRight THEN Zero
  ELSE IF x > lowLeft /\ x <= upLeft THEN Rat(x - lowLeft, upLeft - lowLeft)
  ELSE IF x > upLeft /\ x <= upRight THEN One
  ELSE IF x > upRight /\ x < lowRight
       THEN RSub(One, RAbs(Rat(upRight - x, lowRight - upRight)))
  ELSE Zero

satmf(up, down, x) ==
  IF up < down
  THEN IF x <= up THEN One
       ELSE IF x >= down THEN Zero
       ELSE RSub(One, RAbs(Rat(up - x, down - up)))
  ELSE IF x >= up THEN One
       ELSE IF x <= down THEN Zero
       ELSE Rat(x - down, up - down)

\* fAnd with the product in place of the minimum.
fAndProduct(a, b) == Rat(a[1] * b[1], a[2] * b[2])

\* The two-argument norms inferMamdani uses.
fAnd(a, b) == min(a, b)
fOr(a, b) == max(a, b)

-----------------------------------------------------------------------------
(* std::string and std::map.                                               *)

\* The characters of the model in the order of their codes.
Ascii ==
  <<"NUL", " ", "A", "B", "C", "D", "E", "F", "G", "H", "I", "J", "K", "L",
    "M", "N", "O", "P", "Q", "R", "S", "T", "U", "V", "W", "X", "Y", "Z", "_",
    "a", "b", "c", "d", "e", "f", "g", "h", "i", "j", "k", "l", "m", "n", "o",
    "p", "q", "r", "s", "t", "u", "v", "w", "x", "y", "z">>

CodeOf == [c \in {Ascii[k] : k \in 1..Len(Ascii)} |->
             CHOOSE k \in 1..Len(Ascii) : Ascii[k] = c]

CharCode(c) == CodeOf[c]

\* operator< of std::string
RECURSIVE StrLess(_, _)
StrLess(a, b) ==
  IF b = <<>> THEN FALSE
  ELSE IF a = <<>> THEN TRUE
  ELSE IF a[1] # b[1] THEN CharCode(a[1]) < CharCode(b[1])
  ELSE StrLess(Tail(a), Tail(b))

\* rule[k] for 0 <= k <= rule.length(): the character at index k, '\0' at
\* index rule.length().
CharAt(rule, k) == IF k < Len(rule) THEN rule[k + 1] ELSE "NUL"

\* std::string::find(sub) != npos
Contains(s, sub) ==
  \E k \in 1..(Len(s) - Len(sub) + 1) : SubSeq(s, k, k + Len(sub) - 1) = sub

\* The empty std::map, and m[k] = v.
EmptyMap == <<>>
MapPut(m, k, v) ==
  [n \in (DOMAIN m) \cup {k} |-> IF n = k THEN v ELSE m[n]]

\* std::map::insert(first, last): the keys already present keep their value.
MapInsertAll(m, from) ==
  [n \in (DOMAIN m) \cup (DOMAIN from) |-> IF n \in DOMAIN m THEN m[n] ELSE from[n]]

-----------------------------------------------------------------------------
(* FuzzySet, InputFuzzySet and OutputFuzzySet.                             *)

\* InputFuzzySet(n) followed by setMF(t, args)
InputFuzzySet(n, t, args) ==
  [name |-> n, type |-> t, params |-> args, membershipValues |-> EmptyMap]

\* OutputFuzzySet(n) followed by setMF(t, args)
OutputFuzzySet(n, t, args) == [name |-> n, type |-> t, params |-> args]

\* InputFuzzySet::eval. The value of gaussianmf is not rational: no set of
\* type GAUSS with two parameters is evaluated in the model, and the case
\* has no branch here.
eval(set, x) ==
  LET p == set.params
  IN  CASE set.type = "TRIANG" ->
             IF Len(p) = 3 THEN triangmf(p[1], p[2], p[3], x) ELSE Zero
        [] set.type = "TRAP" ->
             IF Len(p) = 4 THEN trapmf(p[1], p[2], p[3], p[4], x) ELSE Zero
        [] set.type = "SAT" ->
             IF Len(p) = 2 THEN satmf(p[1], p[2], x) ELSE Zero
        [] set.type = "GAUSS" /\ Len(p) # 2 -> Zero
        [] set.type \notin {"TRIANG", "TRAP", "SAT", "GAUSS"} -> Zero

\* fuzzify with std::map::insert in place of operator[]: a degree already
\* stored is kept.
fuzzifyInsert(set, x) ==
  [set EXCEPT !.membershipValues =
     MapInsertAll(@, MapPut(EmptyMap, set.name, eval(set, x)))]

\* InputFuzzySet::fuzzify
fuzzify(set, x) ==
  [set EXCEPT !.membershipValues = MapPut(@, set.name, eval(set, x))]

\* The loop of main that fuzzifies every input set and collects the
\* membership values of all of them in one map; here every set is given the
\* crisp value x.
RECURSIVE FuzzifyAll(_, _, _)
FuzzifyAll(sets, x, m) ==
  IF sets = <<>> THEN m
  ELSE FuzzifyAll(Tail(sets), x,
                  MapInsertAll(m, fuzzify(Head(sets), x).membershipValues))

-----------------------------------------------------------------------------
(* The inputs of the model: rule lines and fuzzy set definitions.          *)

Grid == {25 * k : k \in 0..GridMax}

wIF == <<"I", "F">>
wAND == <<"A", "N", "D">>
wOR == <<"O", "R">>
wTHEN == <<"T", "H", "E", "N">>
wand == <<"a", "n", "d">>
wor == <<"o", "r">>
wthen == <<"t", "h", "e", "n">>
wAnd == <<"A", "n", "d">>
woR == <<"o", "R">>
wThen == <<"T", "h", "e", "n">>
tA == <<"A">>
tB == <<"B">>
tC == <<"C">>
tU == <<"U">>
oLo == <<"L", "o">>
oHi == <<"H", "i">>

\* The words of a line separated by one space each.
RECURSIVE Line(_)
Line(words) ==
  IF words = <<>> THEN <<>>
  ELSE IF Len(words) = 1 THEN words[1]
  ELSE words[1] \o <<" ">> \o Line(Tail(words))

\* Rules of the grammar IF <term> (AND|OR <term>)* THEN <name>, the keywords
\* in upper case or in lower case.
GoodRules ==
  { Line(<<wIF, tA, wTHEN, oLo>>),
    Line(<<wIF, tA, wAND, tB, wOR, tC, wTHEN, oLo>>),
    Line(<<wIF, tA, wOR, tB, wAND, tC, wTHEN, oHi>>),
    Line(<<wIF, tA, wAND, tB, wAND, tC, wTHEN, oLo>>),
    Line(<<wIF, tA, wOR, tB, wOR, tC, wTHEN, oHi>>),
    Line(<<wIF, tA, wor, tB, wand, tC, wthen, oLo>>),
    Line(<<wIF, tU, wAND, tB, wTHEN, oLo>>),
    Line(<<wIF, tA, wAND, tU, wOR, tC, wTHEN, oHi>>) }

\* Rules with a keyword in mixed case.
MixedCaseRules ==
  { Line(<<wIF, tA, wAnd, tB, woR, tC, wTHEN, oLo>>),
    Line(<<wIF, tA, wAND, tB, wThen, oHi>>) }

\* Malformed lines: no THEN, nothing after THEN, the empty line, a line
\* shorter than three characters.
MalformedRules ==
  { Line(<<wIF, tA, wAND, tB>>),
    Line(<<wIF, tA, wTHEN>>),
    <<>>,
    wIF }

RuleLines == GoodRules \cup MixedCaseRules \cup MalformedRules

\* The words of a fuzzy set definition: a word read by operator>> into a
\* std::string is its characters; read into a double it is a number or the
\* extraction fails.
Word(chars) == [chars |-> chars, isNum |-> FALSE, val |-> 0]
Num(chars, v) == [chars |-> chars, isNum |-> TRUE, val |-> v]

wTRIANG == <<"T", "R", "I", "A", "N", "G">>
wTRAP == <<"T", "R", "A", "P">>
wSAT == <<"S", "A", "T">>
wGAUSS == <<"G", "A", "U", "S", "S">>
wRAMP == <<"R", "A", "M", "P">>
wTip == <<"T", "i", "p">>
nSvcPoor == <<"S", "v", "c", "_", "P", "o", "o", "r">>
nSvcAvg == <<"S", "v", "c", "_", "A", "v", "g">>
nFoodOk == <<"F", "o", "o", "d", "_", "O", "k">>
nTipLow == <<"T", "i", "p", "_", "L", "o", "w">>
nBigTip == <<"B", "i", "g", "_", "T", "i", "p">>
ntiplow == <<"t", "i", "p", "_", "l", "o", "w">>
d0 == Num(<<"0">>, 0)
d25 == Num(<<"2", "5">>, 25)
d50 == Num(<<"5", "0">>, 50)
d75 == Num(<<"7", "5">>, 75)
d100 == Num(<<"1", "0", "0">>, 100)

\* Lines of a variables file, each the sequence of its words.
DefLines ==
  { <<Word(nSvcPoor), Word(wSAT), d0, d50>>,
    <<Word(nSvcAvg), Word(wTRIANG), d0, d50, d100>>,
    <<Word(nTipLow)>>,
    <<Word(nTipLow), Word(wTRIANG), d0, d25, d50>>,
    <<Word(nBigTip), Word(wTRAP), d0, d25, d75, d100>>,
    <<Word(nFoodOk), Word(wTRIANG), d0, d50>>,
    <<Word(nFoodOk), Word(wRAMP), d0, d50>>,
    <<Word(ntiplow), Word(wSAT), d0, d50>>,
    <<Word(nSvcPoor)>> }

\* Fuzzy sets as readFuzzySetsFromFile stores them for two variables files.
VariablesFiles ==
  { << InputFuzzySet(tA, "SAT", <<0, 50>>),
       InputFuzzySet(tB, "TRIANG", <<0, 50, 100>>),
       InputFuzzySet(tC, "TRAP", <<0, 25, 75, 100>>) >>,
    << InputFuzzySet(tA, "TRIANG", <<0, 25, 100>>),
       InputFuzzySet(tB, "SAT", <<100, 50>>),
       InputFuzzySet(tC, "TRAP", <<25, 50, 50, 100>>) >> }

\* The maps main can hand to inferMamdani.
DegreeMaps == { FuzzifyAll(sets, x, EmptyMap) : sets \in VariablesFiles, x \in Grid }

-----------------------------------------------------------------------------
(* Rules::addRule and Rules::inferMamdani.                                 *)

\* The inner loop that reads a token: from index k on, up to a space inside
\* the rule (kind "token") or up to the first index past the '\0' of the
\* rule (kind "oob": the next read is outside the string).
RECURSIVE Scan(_, _, _)
Scan(rule, k, name) ==
  IF k > Len(rule) THEN [kind |-> "oob", j |-> k, name |-> name]
  ELSE IF CharAt(rule, k) = " " THEN [kind |-> "token", j |-> k, name |-> name]
  ELSE Scan(rule, k + 1, Append(name, CharAt(rule, k)))

\* The insert of a std::map in place of the multimap: a pair whose key is
\* already present is dropped.
MapLikeInsert(mm, pair) ==
  IF \E k \in 1..Len(mm) : mm[k][1] = pair[1] THEN mm
  ELSE LET before == SelectSeq(mm, LAMBDA q : q[1] # pair[1] /\ ~StrLess(pair[1], q[1]))
           after == SelectSeq(mm, LAMBDA q : StrLess(pair[1], q[1]))
       IN  before \o <<pair>> \o after

\* multimap::insert: after the last pair whose key is not greater.
RECURSIVE MultimapInsert(_, _)
MultimapInsert(mm, pair) ==
  IF mm = <<>> THEN <<pair>>
  ELSE IF StrLess(pair[1], Head(mm)[1]) THEN <<pair>> \o mm
  ELSE <<Head(mm)>> \o MultimapInsert(Tail(mm), pair)

\* The loop over the multimap that keeps the maximum of each output set.
RECURSIVE MaxLoop(_, _, _, _)
MaxLoop(mm, currentSet, maximum, out) ==
  IF mm = <<>> THEN [currentSet |-> currentSet, maximum |-> maximum, output |-> out]
  ELSE LET first == Head(mm)[1]
           second == Head(mm)[2]
           m0 == IF first # currentSet THEN Zero ELSE maximum
           m1 == max(m0, second)
       IN  MaxLoop(Tail(mm), first, m1, MapPut(out, first, m1))

\* The aggregation with the value of the last pair of each output set kept
\* instead of the maximum.
RECURSIVE LastLoop(_, _)
LastLoop(mm, out) ==
  IF mm = <<>> THEN out
  ELSE LastLoop(Tail(mm), MapPut(out, Head(mm)[1], Head(mm)[2]))

AggregationLastWins(mm) == LastLoop(mm, EmptyMap)

\* The aggregation that ends inferMamdani, with the final assignment
\* output[currentSet] = maximum.
Aggregation(mm) ==
  LET r == MaxLoop(mm, <<>>, Zero, EmptyMap)
  IN  MapPut(r.output, r.currentSet, r.maximum)

addRule(r) ==
  /\ pc = "idle"
  /\ Len(rules) < MaxRules
  /\ rules' = Append(rules, r)
  /\ UNCHANGED <<pc, inputMembershipValues, i, j, fuzzySetName, andFlag, orFlag,
                 accum, outputMembershipValues, output>>

\* The start of an iteration of the loop over the rules, or its end.
NextRule(k) ==
  /\ i' = k
  /\ j' = 3
  /\ fuzzySetName' = <<>>
  /\ andFlag' = FALSE
  /\ orFlag' = FALSE
  /\ accum' = Zero
  /\ pc' = IF k < Len(rules) THEN "scan" ELSE "aggregate"

inferMamdani(degrees) ==
  /\ pc = "idle"
  /\ inputMembershipValues' = degrees
  /\ outputMembershipValues' = <<>>
  /\ NextRule(0)
  /\ UNCHANGED <<rules, output>>

\* The body of the while loop after the inner loop, for the token name:
\* the new values of andFlag, orFlag and accum.
ProcessToken(name, degrees, st) ==
  IF name = wAND \/ name = wand THEN [st EXCEPT !.andFlag = TRUE]
  ELSE IF name = wOR \/ name = wor THEN [st EXCEPT !.orFlag = TRUE]
  ELSE IF name \in DOMAIN degrees
  THEN LET currentValue == degrees[name]
       IN  IF st.andFlag
           THEN [st EXCEPT !.andFlag = FALSE, !.accum = fAnd(currentValue, st.accum)]
           ELSE IF st.orFlag
           THEN [st EXCEPT !.orFlag = FALSE, !.accum = fOr(currentValue, st.accum)]
           ELSE [st EXCEPT !.accum = currentValue]
  ELSE st

\* The condition with the upper-case spelling alone.
IsThenUpperOnly(name) == name = wTHEN

\* The condition of the while loop: the token read last is THEN.
IsThen(name) == name = wTHEN \/ name = wthen

\* A token has been read and index k holds the space after it.
EndToken(name, k) ==
  LET st == ProcessToken(name, inputMembershipValues,
                         [andFlag |-> andFlag, orFlag |-> orFlag, accum |-> accum])
  IN  /\ fuzzySetName' = name
      /\ j' = k + 1
      /\ pc' = IF IsThen(name) THEN "then" ELSE "scan"
      /\ andFlag' = st.andFlag
      /\ orFlag' = st.orFlag
      /\ accum' = st.accum

\* The loop that reads the name of the output set, from index k on.
ConsequentName(rule, k) ==
  IF k < Len(rule) THEN SubSeq(rule, k + 1, Len(rule)) ELSE <<>>

\* The analysis of one rule as long as its reads stay inside the rule: the
\* pair it inserts (kind "pair"), or kind "oob" when it reads past the end.
RECURSIVE AnalyseFrom(_, _, _, _)
AnalyseFrom(rule, degrees, k, st) ==
  LET s == Scan(rule, k, <<>>)
  IN  IF s.kind = "oob" THEN [kind |-> "oob"]
      ELSE LET st1 == ProcessToken(s.name, degrees, st)
           IN  IF IsThen(s.name)
               THEN [kind |-> "pair", name |-> ConsequentName(rule, s.j + 1),
                     accum |-> st1.accum]
               ELSE AnalyseFrom(rule, degrees, s.j + 1, st1)

Analyse(rule, degrees) ==
  AnalyseFrom(rule, degrees, 3,
              [andFlag |-> FALSE, orFlag |-> FALSE, accum |-> Zero])

\* inferMamdani as a function of the list of rules and the degree map, for
\* rules whose analysis stays inside their text: the pairs of the rules
\* inserted in the order of the list, then the aggregation.
RECURSIVE InsertPairs(_, _, _)
InsertPairs(rs, degrees, mm) ==
  IF rs = <<>> THEN mm
  ELSE LET r == Analyse(Head(rs), degrees)
       IN  InsertPairs(Tail(rs), degrees, MultimapInsert(mm, <<r.name, r.accum>>))

inferMamdaniResult(rs, degrees) == Aggregation(InsertPairs(rs, degrees, <<>>))

\* One iteration of the while loop whose reads stay inside the rule, or its
\* reads up to the end of the rule.
ScanToken ==
  /\ pc = "scan"
  /\ LET s == Scan(rules[i + 1], j, <<>>)
     IN  IF s.kind = "token"
         THEN EndToken(s.name, s.j)
         ELSE /\ pc' = "oob"
              /\ j' = s.j
              /\ fuzzySetName' = s.name
              /\ UNCHANGED <<andFlag, orFlag, accum>>
  /\ UNCHANGED <<rules, inputMembershipValues, i, outputMembershipValues, output>>

\* rule[j] with j > rule.length() is undefined: the read yields whatever the
\* memory after the string holds.
GarbageChars == {" ", "g"}

OobChar(c) ==
  /\ pc = "oob"
  /\ j < Len(rules[i + 1]) + 1 + MaxOverrun
  /\ IF c = " "
     THEN EndToken(fuzzySetName, j)
     ELSE /\ fuzzySetName' = Append(fuzzySetName, c)
          /\ j' = j + 1
          /\ UNCHANGED <<pc, andFlag, orFlag, accum>>
  /\ UNCHANGED <<rules, inputMembershipValues, i, outputMembershipValues, output>>

\* or the read faults and the process ends.
OobCrash ==
  /\ pc = "oob"
  /\ pc' = "crashed"
  /\ UNCHANGED <<rules, inputMembershipValues, i, j, fuzzySetName, andFlag,
                 orFlag, accum, outputMembershipValues, output>>

\* After THEN: the rest of the rule is the name of the output set, and the
\* pair is inserted.
Consequent ==
  /\ pc = "then"
  /\ outputMembershipValues' =
       MultimapInsert(outputMembershipValues,
                      <<ConsequentName(rules[i + 1], j), accum>>)
  /\ NextRule(i + 1)
  /\ UNCHANGED <<rules, inputMembershipValues, output>>

Aggregate ==
  /\ pc = "aggregate"
  /\ output' = Aggregation(outputMembershipValues)
  /\ pc' = "done"
  /\ UNCHANGED <<rules, inputMembershipValues, i, j, fuzzySetName, andFlag,
                 orFlag, accum, outputMembershipValues>>

-----------------------------------------------------------------------------
(* Calls of the membership functions: mf holds the function called, its   *)
(* arguments and, once the call has returned (done), its result.           *)

PendingCall(fn, args, x) ==
  [fn |-> fn, args |-> args, x |-> x, done |-> FALSE, res |-> Zero]

PendingCalls ==
  { PendingCall("triangmf", <<left, center, right>>, x) :
      left \in Grid, center \in Grid, right \in Grid, x \in Grid }
  \cup
  { PendingCall("trapmf", <<lowLeft, upLeft, upRight, lowRight>>, x) :
      lowLeft \in Grid, upLeft \in Grid, upRight \in Grid, lowRight \in Grid,
      x \in Grid }
  \cup
  { PendingCall("satmf", <<up, down>>, x) :
      up \in Grid, down \in Grid, x \in Grid }

Return(res) == mf' = [mf EXCEPT !.done = TRUE, !.res = res]

CallTriangmf ==
  /\ mf.fn = "triangmf" /\ ~mf.done
  /\ Return(triangmf(mf.args[1], mf.args[2], mf.args[3], mf.x))

CallTrapmf ==
  /\ mf.fn = "trapmf" /\ ~mf.done
  /\ Return(trapmf(mf.args[1], mf.args[2], mf.args[3], mf.args[4], mf.x))

CallSatmf ==
  /\ mf.fn = "satmf" /\ ~mf.done
  /\ Return(satmf(mf.args[1], mf.args[2], mf.x))

-----------------------------------------------------------------------------
(* readFuzzySetsFromFile.                                                  *)

MFTypes == {"TRIANG", "TRAP", "SAT", "GAUSS"}

\* The number of parameters of the membership function named typeStr.
NumParams(typeStr) ==
  IF typeStr = wTRIANG THEN 3
  ELSE IF typeStr = wTRAP THEN 4
  ELSE IF typeStr = wSAT THEN 2
  ELSE IF typeStr = wGAUSS THEN 2
  ELSE 0

\* The switch on numParams: the parameters pushed when all of them are read.
ReadParams(words, n) ==
  IF n > 0 /\ Len(words) >= n + 2 /\ \A k \in 3..(n + 2) : words[k].isNum
  THEN [k \in 1..n |-> words[k + 2].val]
  ELSE <<>>

\* The values mfType can hold after the chain of comparisons: the type
\* named, or an uninitialized MFType when the name is none of the four.
TypesOf(typeStr) ==
  IF typeStr = wTRIANG THEN {"TRIANG"}
  ELSE IF typeStr = wTRAP THEN {"TRAP"}
  ELSE IF typeStr = wSAT THEN {"SAT"}
  ELSE IF typeStr = wGAUSS THEN {"GAUSS"}
  ELSE MFTypes \cup {"Unknown"}

\* iss >> setName >> mfTypeStr >> param1 succeeds.
HeaderRead(words) == Len(words) >= 3 /\ words[3].isNum

\* setName.find("Tip") != std::string::npos
IsOutputName(setName) == Contains(setName, wTip)

\* One iteration of the loop over the lines of the file.
ReadLine(words, mfType) ==
  /\ Len(lines) < MaxLines
  /\ lines' = Append(lines, words)
  /\ IF HeaderRead(words)
     THEN LET setName == words[1].chars
              params == ReadParams(words, NumParams(words[2].chars))
          IN  /\ mfType \in TypesOf(words[2].chars)
              /\ IF IsOutputName(setName)
                 THEN /\ outputSets' =
                           Append(outputSets, OutputFuzzySet(setName, mfType, params))
                      /\ UNCHANGED <<inputSets, fuzzified>>
                 ELSE /\ inputSets' =
                           Append(inputSets, InputFuzzySet(setName, mfType, params))
                      /\ fuzzified' = Append(fuzzified, <<>>)
                      /\ UNCHANGED outputSets
     ELSE /\ mfType = "Unknown"
          /\ UNCHANGED <<inputSets, outputSets, fuzzified>>

\* The crisp values of main.
crispInputService == 40
crispInputFood == 60
CrispInputs == {crispInputService, crispInputFood}

\* The number of fuzzify calls made so far.
RECURSIVE SumLen(_)
SumLen(seqs) == IF seqs = <<>> THEN 0 ELSE Len(Head(seqs)) + SumLen(Tail(seqs))

\* inputSets[k - 1].fuzzify(x)
CallFuzzify(k, x) ==
  /\ k \in 1..Len(inputSets)
  /\ SumLen(fuzzified) < MaxFuzzify
  /\ inputSets' = [inputSets EXCEPT ![k] = fuzzify(@, x)]
  /\ fuzzified' = [fuzzified EXCEPT ![k] = Append(@, x)]
  /\ UNCHANGED <<outputSets, lines>>

InferInit ==
  /\ rules = <<>>
  /\ pc = "idle"
  /\ inputMembershipValues = EmptyMap
  /\ i = 0
  /\ j = 0
  /\ fuzzySetName = <<>>
  /\ andFlag = FALSE
  /\ orFlag = FALSE
  /\ accum = Zero
  /\ outputMembershipValues = <<>>
  /\ output = EmptyMap

MfInit == mf = PendingCall("none", <<>>, 0)

SetInit ==
  inputSets = <<>> /\ outputSets = <<>> /\ lines = <<>> /\ fuzzified = <<>>

Init == MfInit /\ SetInit /\ InferInit

Next ==
  \/ (\E r \in RuleLines : addRule(r)) /\ UNCHANGED <<mfVars, setVars>>
  \/ (\E degrees \in DegreeMaps : inferMamdani(degrees)) /\ UNCHANGED <<mfVars, setVars>>
  \/ ScanToken /\ UNCHANGED <<mfVars, setVars>>
  \/ (\E c \in GarbageChars : OobChar(c)) /\ UNCHANGED <<mfVars, setVars>>
  \/ OobCrash /\ UNCHANGED <<mfVars, setVars>>
  \/ Consequent /\ UNCHANGED <<mfVars, setVars>>
  \/ Aggregate /\ UNCHANGED <<mfVars, setVars>>

Spec == Init /\ [][Next]_vars

\* Each membership function called once, with parameters and value of Grid.
InitMF == mf \in PendingCalls /\ SetInit /\ InferInit

NextMF ==
  \/ CallTriangmf /\ UNCHANGED <<setVars, inferVars>>
  \/ CallTrapmf /\ UNCHANGED <<setVars, inferVars>>
  \/ CallSatmf /\ UNCHANGED <<setVars, inferVars>>

SpecMF == InitMF /\ [][NextMF]_vars

\* readFuzzySetsFromFile on the files made of the lines of DefLines.
NextRead ==
  (\E words \in DefLines : \E mfType \in MFTypes \cup {"Unknown"} :
     ReadLine(words, mfType))
  /\ UNCHANGED <<mfVars, inferVars>>

SpecRead == Init /\ [][NextRead]_vars

\* The sets read from a file and fuzzified, each with the crisp values of
\* main.
NextFuzzify ==
  \/ NextRead
  \/ (\E k \in 1..MaxLines : \E x \in CrispInputs : CallFuzzify(k, x))
     /\ UNCHANGED <<mfVars, inferVars>>

SpecFuzzify == Init /\ [][NextFuzzify]_vars

-----------------------------------------------------------------------------
(* The rule grammar and the evaluation the specification states, written   *)
(* independently of the scanning code.                                     *)

\* The words of a line: the pieces between its spaces.
RECURSIVE SplitFrom(_, _, _)
SplitFrom(s, cur, acc) ==
  IF s = <<>> THEN Append(acc, cur)
  ELSE IF Head(s) = " " THEN SplitFrom(Tail(s), <<>>, Append(acc, cur))
  ELSE SplitFrom(Tail(s), Append(cur, Head(s)), acc)

Words(rule) == SplitFrom(rule, <<>>, <<>>)

AndWords == {wAND, wand}
OrWords == {wOR, wor}
ThenWords == {wTHEN, wthen}
Keywords == AndWords \cup OrWords \cup ThenWords

\* IF <term> (AND|OR <term>)* THEN <name>
WellFormed(rule) ==
  LET w == Words(rule)
      n == Len(w)
  IN  /\ n >= 4
      /\ n % 2 = 0
      /\ w[1] = wIF
      /\ w[n - 1] \in ThenWords
      /\ w[n] # <<>>
      /\ \A k \in 2..(n - 2) :
           IF k % 2 = 0 THEN w[k] # <<>> /\ w[k] \notin Keywords
           ELSE w[k] \in AndWords \cup OrWords

\* The number of terms of a well-formed rule, its k-th term, the connector
\* before its k-th term (k > 1), and its consequent.
NumTerms(rule) == (Len(Words(rule)) - 2) \div 2
Term(rule, k) == Words(rule)[2 * k]
Connector(rule, k) == Words(rule)[2 * k - 1]
RefConsequent(rule) == Words(rule)[Len(Words(rule))]

AllTermsPresent(rule, degrees) ==
  \A k \in 1..NumTerms(rule) : Term(rule, k) \in DOMAIN degrees

RMin(a, b) == IF RLeq(a, b) THEN a ELSE b
RMax(a, b) == IF RLeq(a, b) THEN b ELSE a

\* The left fold of the degrees of the terms 1..k of a rule.
RECURSIVE LeftFold(_, _, _)
LeftFold(rule, degrees, k) ==
  IF k = 1 THEN degrees[Term(rule, 1)]
  ELSE IF Connector(rule, k) \in AndWords
  THEN RMin(LeftFold(rule, degrees, k - 1), degrees[Term(rule, k)])
  ELSE RMax(LeftFold(rule, degrees, k - 1), degrees[Term(rule, k)])

\* The rule being analysed, and the locals a token changes.
CurrentRule == rules[i + 1]
Locals == [andFlag |-> andFlag, orFlag |-> orFlag, accum |-> accum]

InUnit(d) == RLeq(Zero, d) /\ RLeq(d, One)

-----------------------------------------------------------------------------
\* The firing strengths of the rules whose consequent is name.
Strengths(name) ==
  { Analyse(rules[k], inputMembershipValues).accum :
      k \in { n \in 1..Len(rules) : RefConsequent(rules[n]) = name } }

(* C1. When inferMamdani has returned for a non-empty list of well-formed  *)
(* rules, the keys of the returned map are exactly the consequent names of *)
(* the rules, and the value of each name is the maximum of the firing      *)
(* strengths of the rules that name it.                                    *)
C1_MaxAggregation ==
  (pc = "done" /\ rules # <<>> /\ \A k \in 1..Len(rules) : WellFormed(rules[k]))
  => /\ DOMAIN output = { RefConsequent(rules[k]) : k \in 1..Len(rules) }
     /\ Len(outputMembershipValues) = Len(rules)
     /\ \A name \in DOMAIN output :
          /\ output[name] \in Strengths(name)
          /\ \A v \in Strengths(name) : RLeq(v, output[name])

\* C1, witness: two rules name the same output set and the first fires
\* more strongly.
C1_Witness ==
  /\ pc = "done"
  /\ Len(rules) = 2
  /\ WellFormed(rules[1]) /\ WellFormed(rules[2])
  /\ RefConsequent(rules[1]) = RefConsequent(rules[2])
  /\ RLess(Analyse(rules[2], inputMembershipValues).accum,
           Analyse(rules[1], inputMembershipValues).accum)
  /\ output[RefConsequent(rules[1])] = Analyse(rules[1], inputMembershipValues).accum

-----------------------------------------------------------------------------
(* C2. When the antecedent of a well-formed rule whose terms are all in    *)
(* the degree map has been read, accum is the left fold of the degrees of  *)
(* its terms: min for AND, max for OR, no precedence.                      *)
C2_LeftFold ==
  (/\ pc = "then"
   /\ WellFormed(CurrentRule)
   /\ AllTermsPresent(CurrentRule, inputMembershipValues))
  => accum = LeftFold(CurrentRule, inputMembershipValues, NumTerms(CurrentRule))

\* C2, witness: 'A AND B OR C' has been read with degrees for which the left
\* fold and OR binding tighter than AND give different strengths.
C2_Witness ==
  /\ pc = "then"
  /\ CurrentRule = Line(<<wIF, tA, wAND, tB, wOR, tC, wTHEN, oLo>>)
  /\ accum = RMax(inputMembershipValues[tC],
                  RMin(inputMembershipValues[tB], inputMembershipValues[tA]))
  /\ accum # RMin(inputMembershipValues[tA],
                  RMax(inputMembershipValues[tB], inputMembershipValues[tC]))

-----------------------------------------------------------------------------
\* The fold of the terms 1..k that are present: whether one was seen, and
\* the accumulator.
RECURSIVE SkipFold(_, _, _)
SkipFold(rule, degrees, k) ==
  IF k = 0 THEN [seen |-> FALSE, acc |-> Zero]
  ELSE LET prev == SkipFold(rule, degrees, k - 1)
           t == Term(rule, k)
       IN  IF t \notin DOMAIN degrees THEN prev
           ELSE IF ~prev.seen THEN [seen |-> TRUE, acc |-> degrees[t]]
           ELSE IF Connector(rule, k) \in AndWords
           THEN [seen |-> TRUE, acc |-> RMin(prev.acc, degrees[t])]
           ELSE [seen |-> TRUE, acc |-> RMax(prev.acc, degrees[t])]

(* C3. When the antecedent of a well-formed rule has been read, accum is   *)
(* the firing strength of the rule without its absent terms, each removed  *)
(* with its adjacent connector: the first term present starts the fold and *)
(* each later term present is combined by the connector before it, so      *)
(* 'U AND B' fires at the degree of B and 'A AND U OR C' at max(C, A);     *)
(* and reading an absent term leaves accum, andFlag and orFlag as they     *)
(* were.                                                                   *)
C3_AbsentTermsRemoved ==
  /\ (pc = "then" /\ WellFormed(CurrentRule))
     => accum = SkipFold(CurrentRule, inputMembershipValues,
                         NumTerms(CurrentRule)).acc
  /\ tU \notin DOMAIN inputMembershipValues
     => ProcessToken(tU, inputMembershipValues, Locals) = Locals

-----------------------------------------------------------------------------
(* C4. For every list of rule lines, malformed ones included,              *)
(* inferMamdani never comes to read outside the text of a rule (pc "oob":  *)
(* the control is at the read of rule[j] with j past the '\0'; "crashed":  *)
(* that read has faulted), and when it has returned it has inserted one    *)
(* pair for every rule of the list.                                        *)
C4_MalformedRulesDegrade ==
  /\ pc \notin {"oob", "crashed"}
  /\ pc = "done" => Len(outputMembershipValues) = Len(rules)

-----------------------------------------------------------------------------
\* The upper-case letter of each lower-case letter.
UpperOf ==
  [c \in {Ascii[k] : k \in CharCode("a")..CharCode("z")} |->
     Ascii[CharCode(c) - (CharCode("a") - CharCode("A"))]]

ToUpper(c) == IF c \in DOMAIN UpperOf THEN UpperOf[c] ELSE c

UpperWord(w) == [k \in 1..Len(w) |-> ToUpper(w[k])]

\* The rule with every word that spells AND, OR or THEN in upper case.
UpperKeywords(rule) ==
  LET w == Words(rule)
  IN  Line([k \in 1..Len(w) |->
              IF UpperWord(w[k]) \in {wAND, wOR, wTHEN} THEN UpperWord(w[k])
              ELSE w[k]])

\* The rule being analysed evaluates as rule u does.
EvaluatesAs(u) ==
  LET r == Analyse(u, inputMembershipValues)
  IN  r.kind = "pair"
      => /\ pc # "oob"
         /\ pc = "then" => /\ accum = r.accum
                           /\ ConsequentName(CurrentRule, j) = r.name

(* C5, as stated. The keywords AND, OR and THEN are recognised in any      *)
(* casing: a rule evaluates to the consequent name and the firing strength *)
(* of the same rule with its keywords in upper case.                       *)
C5_AnyCasing ==
  pc \in {"oob", "then"} => EvaluatesAs(UpperKeywords(CurrentRule))

(* C5, as amended. The keywords are recognised in two spellings, all upper *)
(* case and all lower case: a rule of the grammar with keywords in lower   *)
(* case is read to its end inside its text and evaluates to the consequent *)
(* name and the firing strength of the same rule with its keywords in      *)
(* upper case.                                                             *)
C5_UpperOrLowerCase ==
  (pc \in {"oob", "then"} /\ WellFormed(CurrentRule))
  => /\ Analyse(UpperKeywords(CurrentRule), inputMembershipValues).kind = "pair"
     /\ EvaluatesAs(UpperKeywords(CurrentRule))

\* C5, witness: a rule with lower-case keywords has been read up to its
\* then, with a firing strength that is not that of its last term alone.
C5_Witness ==
  /\ pc = "then"
  /\ CurrentRule = Line(<<wIF, tA, wor, tB, wand, tC, wthen, oLo>>)
  /\ UpperKeywords(CurrentRule) = Line(<<wIF, tA, wOR, tB, wAND, tC, wTHEN, oLo>>)
  /\ accum # inputMembershipValues[tC]
  /\ ConsequentName(CurrentRule, j) = oLo

-----------------------------------------------------------------------------
(* C6. With no rule stored, inferMamdani returns a map with no key.        *)
C6_EmptyRulesEmptyOutput ==
  (pc = "done" /\ rules = <<>>) => DOMAIN output = {}

-----------------------------------------------------------------------------
(* C7. satmf at the four stated points: satmf(0,50,0) = 1,                 *)
(* satmf(0,50,50) = 0, satmf(50,100,50) = 1 and satmf(50,100,0) = 0.       *)
C7_SaturationPoints ==
  (mf.fn = "satmf" /\ mf.done)
  => /\ (mf.args = <<0, 50>> /\ mf.x = 0) => mf.res = One
     /\ (mf.args = <<0, 50>> /\ mf.x = 50) => mf.res = Zero
     /\ (mf.args = <<50, 100>> /\ mf.x = 50) => mf.res = One
     /\ (mf.args = <<50, 100>> /\ mf.x = 0) => mf.res = Zero

-----------------------------------------------------------------------------
(* C8. For left < center < right, triangmf is 0 outside (left, right),     *)
(* (x - left)/(center - left) up to center and (right - x)/(right - center)*)
(* after it.                                                               *)
C8_TriangleShape ==
  LET left == mf.args[1]
      center == mf.args[2]
      right == mf.args[3]
  IN  (mf.fn = "triangmf" /\ mf.done /\ left < center /\ center < right)
      => mf.res = IF mf.x <= left \/ mf.x >= right THEN Zero
                  ELSE IF mf.x <= center THEN Rat(mf.x - left, center - left)
                  ELSE Rat(right - mf.x, right - center)

-----------------------------------------------------------------------------
\* The three functions on the well-ordered parameters and values of Grid.
MFUnitRange ==
  /\ \A left, center, right, x \in Grid :
       (left < center /\ center < right)
       => InUnit(triangmf(left, center, right, x))
  /\ \A lowLeft, upLeft, upRight, lowRight, x \in Grid :
       (lowLeft < upLeft /\ upLeft <= upRight /\ upRight < lowRight)
       => InUnit(trapmf(lowLeft, upLeft, upRight, lowRight, x))
  /\ \A up, down, x \in Grid : up # down => InUnit(satmf(up, down, x))

(* C9. For well-ordered parameters triangmf, trapmf and satmf return a     *)
(* degree in [0,1], and so every degree of the map handed to inferMamdani, *)
(* every firing strength and every value of the returned map is in [0,1].  *)
C9_UnitRange ==
  /\ MFUnitRange
  /\ \A name \in DOMAIN inputMembershipValues :
       InUnit(inputMembershipValues[name])
  /\ InUnit(accum)
  /\ \A k \in 1..Len(outputMembershipValues) :
       InUnit(outputMembershipValues[k][2])
  /\ \A name \in DOMAIN output : InUnit(output[name])

\* C9, witness: inferMamdani has returned a degree strictly between 0 and 1.
C9_Witness ==
  /\ pc = "done"
  /\ \E name \in DOMAIN output :
       RLess(Zero, output[name]) /\ RLess(output[name], One)

-----------------------------------------------------------------------------
NamesOf(sets) == { sets[k].name : k \in 1..Len(sets) }

(* C10. readFuzzySetsFromFile turns every line into one fuzzy set: a line  *)
(* whose name contains Tip adds a set of that name to outputSets, a bare   *)
(* name included, and every other line adds one to inputSets.              *)
C10_EveryLineOneSet ==
  /\ Len(inputSets) + Len(outputSets) = Len(lines)
  /\ \A k \in 1..Len(lines) :
       IF Contains(lines[k][1].chars, wTip)
       THEN lines[k][1].chars \in NamesOf(outputSets)
       ELSE lines[k][1].chars \in NamesOf(inputSets)

-----------------------------------------------------------------------------
\* The permutations of 1..n, and the list rs in the order p.
PermutationsOf(n) ==
  { p \in [1..n -> 1..n] : \A a, b \in 1..n : a # b => p[a] # p[b] }

Permuted(rs, p) == [k \in 1..Len(rs) |-> rs[p[k]]]

AllWellFormed(rs) == \A k \in 1..Len(rs) : WellFormed(rs[k])

(* C11. The result of inferMamdani does not depend on the order of the     *)
(* rules: when it has returned for a list of well-formed rules, the map it *)
(* returned is the map it returns for every permutation of the list with   *)
(* the same degree map.                                                    *)
C11_OrderIndependent ==
  (pc = "done" /\ AllWellFormed(rules))
  => \A p \in PermutationsOf(Len(rules)) :
       inferMamdaniResult(Permuted(rules, p), inputMembershipValues) = output

\* C11, witness: two different rules name the same output set, the second
\* fires more strongly than the first, and the list in the other order
\* gives the map returned.
C11_Witness ==
  /\ pc = "done"
  /\ Len(rules) = 2
  /\ AllWellFormed(rules)
  /\ RefConsequent(rules[1]) = RefConsequent(rules[2])
  /\ RLess(Analyse(rules[1], inputMembershipValues).accum,
           Analyse(rules[2], inputMembershipValues).accum)
  /\ output = inferMamdaniResult(<<rules[2], rules[1]>>, inputMembershipValues)
  /\ output[RefConsequent(rules[1])] = Analyse(rules[2], inputMembershipValues).accum

-----------------------------------------------------------------------------
\* The last element of a non-empty sequence.
Last(seq) == seq[Len(seq)]

\* The stored map of input set k holds the degree of x under the name of the
\* set and nothing else.
StoresOnly(k, x) ==
  LET set == inputSets[k]
  IN  /\ DOMAIN set.membershipValues = {set.name}
      /\ set.membershipValues[set.name] = eval(set, x)

\* A step leaves the name, the shape tag and the parameters of every input
\* set as they were.
DefinitionsKept ==
  \A k \in 1..Len(inputSets) :
    /\ inputSets'[k].name = inputSets[k].name
    /\ inputSets'[k].type = inputSets[k].type
    /\ inputSets'[k].params = inputSets[k].params

\* A call of fuzzify on a set with the value of its previous call leaves the
\* stored map as it was.
SameValueSameDegree ==
  \A k \in 1..Len(inputSets) :
    (/\ fuzzified[k] # <<>>
     /\ fuzzified'[k] = Append(fuzzified[k], Last(fuzzified[k])))
    => inputSets'[k].membershipValues = inputSets[k].membershipValues

(* C12. After the calls fuzzify(x1), ..., fuzzify(xn), n > 0, on an input  *)
(* set, its stored map holds one entry, under the name of the set, whose   *)
(* value is eval(xn); no step changes the name, the shape tag or the       *)
(* parameters of a set; and a call with the value of the previous call     *)
(* leaves the stored degree as it was.                                     *)
C12_LastFuzzifyWins ==
  /\ [](\A k \in 1..Len(inputSets) :
          fuzzified[k] # <<>> => StoresOnly(k, Last(fuzzified[k])))
  /\ [][DefinitionsKept /\ SameValueSameDegree]_vars

\* C12, witness: a set has been fuzzified twice, with two values of
\* different degrees, and stores the degree of the second.
C12_Witness ==
  \E k \in 1..Len(inputSets) :
    /\ Len(fuzzified[k]) = 2
    /\ eval(inputSets[k], fuzzified[k][1]) # eval(inputSets[k], fuzzified[k][2])
    /\ StoresOnly(k, fuzzified[k][2])
    /\ inputSets[k].membershipValues[inputSets[k].name] # Zero

-----------------------------------------------------------------------------
(* C13. For lowLeft <= upLeft <= upRight <= lowRight with                  *)
(* lowLeft < lowRight, trapmf is 0 for x <= lowLeft and for x >= lowRight, *)
(* and 1 for every x of [upLeft, upRight] strictly between lowLeft and     *)
(* lowRight, the ends of the plateau and the shoulder shapes               *)
(* lowLeft = upLeft and upRight = lowRight included.                       *)
C13_TrapezoidPlateau ==
  LET lowLeft == mf.args[1]
      upLeft == mf.args[2]
      upRight == mf.args[3]
      lowRight == mf.args[4]
  IN  (/\ mf.fn = "trapmf" /\ mf.done
       /\ lowLeft <= upLeft /\ upLeft <= upRight /\ upRight <= lowRight
       /\ lowLeft < lowRight)
      => /\ (mf.x <= lowLeft \/ mf.x >= lowRight) => mf.res = Zero
         /\ (/\ upLeft <= mf.x /\ mf.x <= upRight
             /\ lowLeft < mf.x /\ mf.x < lowRight) => mf.res = One

\* C13, witness: a left shoulder, lowLeft = upLeft, called at the right end
\* of its plateau, upLeft < x = upRight < lowRight, has returned 1.
C13_Witness ==
  /\ mf.fn = "trapmf" /\ mf.done
  /\ mf.args[1] = mf.args[2]
  /\ mf.args[2] < mf.args[3]
  /\ mf.args[3] < mf.args[4]
  /\ mf.x = mf.args[3]
  /\ mf.res = One

=============================================================================
